---- MODULE Spec2Model ----
(***************************************************************************)
(* TestProjects backend: five data handlers over one table, the process-  *)
(* wide exception handler with its detached error delivery, the board id  *)
(* resolver and the startup-failure report.                                *)
(*                                                                         *)
(* Text values that the code inspects character by character (strip, the  *)
(* webapi<24 hex> pattern, emptiness) are sequences of one-character       *)
(* strings.  Python's None is the value None below.                        *)
(***************************************************************************)
EXTENDS Integers, Sequences, FiniteSets, TLC

\* ------------------------------------------------------------------ bounds
\* handler invocations that can be in flight at the same time
MaxInFlight == 2
\* largest id the table's sequence hands out
MaxId == 2
\* delivery tasks that can be scheduled and not yet run
MaxPending == 1

Reqs == 1..MaxInFlight
Ids == 1..MaxId
Names == {"a", "b"}

\* ------------------------------------------------------------ basic values
None == <<"None">>

\* Python truthiness of an Optional[str]
Truthy(s) == s # None /\ s # <<>>

DbUrl == <<"d", "b">>
PlainUrl == <<"h", "t", "t", "p", ":", "/", "/", "e", "/", "r">>

\* the module whose exceptions are printed without a module prefix
Builtins == <<"b", "u", "i", "l", "t", "i", "n", "s">>
MainModule == <<"_", "_", "m", "a", "i", "n", "_", "_">>

\* exceptions a statement or a commit can raise: the class (module and name),
\* str(exc), and the traceback's frames, outermost first.  A frame has a line
\* of position marks only where the failing expression is part of its source
\* line, not the whole of it
Faults ==
    { [module |-> <<"p", "g">>,
       type |-> <<"O", "p", "E", "r", "r", "o", "r">>,
       message |-> <<"d", "b", " ", "g", "o", "n", "e">>,
       tb |-> <<[filename |-> <<"c", "t", "l", ".", "p", "y">>, lineno |-> 40,
                 name |-> <<"g", "e", "t">>,
                 line |-> <<"x", " ", "=", " ", "r", "u", "n", "(", ")">>,
                 marks |-> <<" ", " ", " ", " ", " ", " ", " ", " ",
                             "^", "^", "^", "^", "^">>],
                [filename |-> <<"p", "g", ".", "p", "y">>, lineno |-> 7,
                 name |-> <<"r", "u", "n">>, line |-> <<>>, marks |-> <<>>]>>],
      [module |-> Builtins,
       type |-> <<"E", "x", "c", "e", "p", "t", "i", "o", "n">>,
       message |-> <<>>,
       tb |-> <<[filename |-> <<"c", "t", "l", ".", "p", "y">>, lineno |-> 12,
                 name |-> <<"g", "e", "t">>, line |-> <<"r", "u", "n", "(", ")">>,
                 marks |-> <<>>]>>] }
NoExc == [module |-> <<>>, type |-> <<>>, message |-> <<>>, tb |-> <<>>]

Operations == {"get_all", "get", "create", "update", "delete"}

VARIABLES
    env,        \* process environment: variable name -> value or None
    table,      \* committed rows of "TestProjects": set of [Id, Name]
    nextId,     \* next value of the Id sequence
    pc,         \* per invocation: "idle"; "open" once it holds a connection;
                \* "executed" after its cursor block; "closing" at its finally
    call,       \* per invocation past "open": route, arguments, how it ends so far
    conn,       \* per invocation: its connection, 0 when it has none
    open,       \* connections currently open
    pending,    \* delivery tasks created and not yet run
    written,    \* per id: the name its latest committed create or update wrote
    last,       \* the HTTP exchange the latest step completed, if it completed one
    delivery,   \* the outcome the latest step's delivery attempt logged, if any
    phase,      \* error report under study: how far its path has run
    request,    \* ... the request during which the fault was raised
    raised,     \* ... the fault
    clock,      \* ... datetime.now(timezone.utc).isoformat() at delivery
    board_id,   \* ... what extract_board_id returned
    answer,     \* ... the response global_exception_handler returned
    built,      \* ... the payload the startup block handed to its thread
    sent        \* ... the JSON body posted to the endpoint

serverVars ==
    <<table, nextId, written, pc, call, conn, open, pending, last, delivery>>
reportVars == <<phase, request, raised, clock, board_id, answer, built, sent>>
vars == <<env, serverVars, reportVars>>

\* --------------------------------------------------------------- the store
\* Each connection is one transaction.  A statement reads the committed rows;
\* what it writes reaches the committed rows when its connection commits and
\* is dropped when the connection closes without a commit.  The sequence
\* behind "Id" advances when the INSERT executes, committed or not.  Nothing
\* here relies on row locks: two uncommitted writes of one row may coexist.
RECURSIVE OrderById(_)
\* ORDER BY "Id": the rows as a list, ascending by Id
OrderById(rows) ==
    IF rows = {} THEN <<>>
    ELSE LET m == CHOOSE r \in rows : \A q \in rows : r.Id <= q.Id
         IN <<m>> \o OrderById(rows \ {m})

\* (variant) the SELECT without its WHERE clause: fetchone takes the first row
SelectById_FirstRow(rows, id) ==
    {r \in rows : \A q \in rows : r.Id <= q.Id}

\* SELECT "Id", "Name" FROM "TestProjects" WHERE "Id" = %s
SelectById(rows, id) == {r \in rows : r.Id = id}

\* INSERT INTO "TestProjects" ("Name") VALUES (%s) RETURNING "Id"
InsertRow(rows, seq, name) == rows \cup {[Id |-> seq, Name |-> name]}

\* (variant) the UPDATE without its WHERE clause
UpdateRows_NoWhere(rows, id, name) == {[r EXCEPT !.Name = name] : r \in rows}

\* UPDATE "TestProjects" SET "Name" = %s WHERE "Id" = %s
UpdateRows(rows, id, name) ==
    {IF r.Id = id THEN [r EXCEPT !.Name = name] ELSE r : r \in rows}

\* DELETE FROM "TestProjects" WHERE "Id" = %s
DeleteRows(rows, id) == {r \in rows : r.Id # id}

\* cur.rowcount of an UPDATE or DELETE keyed by id
RowCount(rows, id) == Cardinality(SelectById(rows, id))

\* ------------------------------------------------- how a handler call ends
Return(value) == [kind |-> "return", value |-> value]
HttpError(status, detail) == [kind |-> "http", status |-> status, detail |-> detail]
Raise(exc) == [kind |-> "raise", exc |-> exc]

\* an awaited store call either completes or raises one of Faults
NoFault == [at |-> "none", exc |-> NoExc]
FaultsAt(point) == {NoFault} \cup {[at |-> point, exc |-> e] : e \in Faults}

\* path and body parameters each route takes
ArgIdsOf(op) == IF op \in {"get", "update", "delete"} THEN Ids ELSE {0}
ArgNamesOf(op) == IF op \in {"create", "update"} THEN Names ELSE {""}

\* ------------------------------------------------------- exception handler
GenericError == "An error occurred while processing your request"

\* the JSONResponse global_exception_handler returns
ErrorResponse(exc) ==
    [status |-> 500, body |-> [error |-> GenericError, message |-> exc.message]]

\* (variant) the endpoint is tested against None only, so an empty value counts
SchedulesDelivery_WhenNotNone(e) == e["RUNTIME_ERROR_ENDPOINT_URL"] # None

\* whether global_exception_handler schedules send_error_to_endpoint
SchedulesDelivery(e) == Truthy(e["RUNTIME_ERROR_ENDPOINT_URL"])

\* the handler is registered for Exception; an HTTPException is answered by the
\* framework with its own status and detail and never reaches the handler
ReachesGlobalHandler(out) == out.kind = "raise"

\* what the caller receives for a handler call that ended in `out`
Dispatch(e, out) ==
    IF ReachesGlobalHandler(out)
    THEN [status |-> ErrorResponse(out.exc).status,
          body |-> ErrorResponse(out.exc).body,
          exc |-> out.exc, handled |-> TRUE, spawned |-> SchedulesDelivery(e)]
    ELSE IF out.kind = "http"
    THEN [status |-> out.status, body |-> [detail |-> out.detail],
          exc |-> NoExc, handled |-> FALSE, spawned |-> FALSE]
    ELSE [status |-> 200, body |-> out.value,
          exc |-> NoExc, handled |-> FALSE, spawned |-> FALSE]

\* the record kept of an exchange: the request, the fault the store raised,
\* how and where the handler call ended, and what the caller received
Exchange(op, id, name, origin, fault, out, committed, d) ==
    [op |-> op, id |-> id, name |-> name, origin |-> origin, fault |-> fault,
     ended |-> out.kind, committed |-> committed, status |-> d.status,
     body |-> d.body, exc |-> d.exc, handled |-> d.handled,
     spawned |-> d.spawned]

NoExchange ==
    [op |-> "", id |-> 0, name |-> "", origin |-> "", fault |-> NoFault,
     ended |-> "", committed |-> FALSE, status |-> 0, body |-> [detail |-> ""],
     exc |-> NoExc, handled |-> FALSE, spawned |-> FALSE]

\* an invocation that has not run its cursor block yet
NoCall ==
    [op |-> "", id |-> 0, name |-> "", fault |-> NoFault,
     out |-> [kind |-> "none"], committed |-> FALSE]

\* ---------------------------------------------------- connection handling
\* the detail texts of the HTTPExceptions the controller raises
NoDatabaseUrl == "DATABASE_URL environment variable not set"
ConnectionError == "Database connection error: connection refused"
NotFound == "Project not found"

\* (variant) get_db_connection without its try/except: a connect error
\* escapes as it is
ConnectionOutcomes_Unwrapped(e) ==
    IF ~Truthy(e["DATABASE_URL"])
    THEN {HttpError(500, NoDatabaseUrl)}
    ELSE {Return("connection")} \cup {Raise(x) : x \in Faults}

\* get_db_connection: the ways the call can end under environment e
ConnectionOutcomes(e) ==
    IF ~Truthy(e["DATABASE_URL"])
    THEN {HttpError(500, NoDatabaseUrl)}
    ELSE {Return("connection"),
          HttpError(503, ConnectionError)}

\* AsyncConnection.connect makes a new connection on every call; it is named
\* after the invocation that made it
NewConnection(r) == r

\* (variant) the close at the end of the try body instead of in a finally
ClosesOn_ReturnOnly(out) == out.kind = "return"

\* the finally block runs on every way out of the try
ClosesOn(out) == TRUE

\* (variant) a missing row raised as a plain exception
NotFoundOutcome_Plain ==
    Raise([module |-> Builtins,
           type |-> <<"E", "x", "c", "e", "p", "t", "i", "o", "n">>,
           message |-> <<"m", "i", "s", "s", "i", "n", "g">>,
           tb |-> <<[filename |-> <<"c", "t", "l", ".", "p", "y">>, lineno |-> 56,
                     name |-> <<"g", "e", "t">>, line |-> <<>>, marks |-> <<>>]>>])

\* raise HTTPException(status_code=404, detail="Project not found")
NotFoundOutcome == HttpError(404, NotFound)

\* conn.commit() follows the cursor block only when the block has not raised
CommitsOn(out) == out.kind = "return"

\* a handler invocation starts: conn = await get_db_connection().  The five
\* handlers are the same up to this call, so which of them the invocation runs
\* is recorded when its statements run, or here when the call fails
Acquire(r, op) ==
    /\ pc[r] = "idle"
    /\ \E o \in ConnectionOutcomes(env) :
          IF o.kind = "return"
          THEN /\ pc' = [pc EXCEPT ![r] = "open"]
               /\ conn' = [conn EXCEPT ![r] = NewConnection(r)]
               /\ open' = open \cup {NewConnection(r)}
               /\ last' = NoExchange
               /\ UNCHANGED pending
          ELSE /\ \E id \in ArgIdsOf(op), name \in ArgNamesOf(op) :
                      last' = Exchange(op, id, name, "get_db_connection",
                                       NoFault, o, FALSE, Dispatch(env, o))
               /\ UNCHANGED <<pc, conn, open, pending>>
    /\ delivery' = "none"
    /\ UNCHANGED <<env, table, nextId, written, call, reportVars>>

\* the cursor block of a handler has run: SET search_path, the statement and
\* the fetch, awaited on the invocation's own connection and cursor.  It met
\* `fault` and stands at `out`; the sequence is left at seq2.  A block that
\* has not raised goes on to the commit, any other to the finally
Executed(r, op, id, name, fault, out, seq2) ==
    /\ pc' = [pc EXCEPT ![r] = IF CommitsOn(out) THEN "executed" ELSE "closing"]
    /\ call' = [call EXCEPT ![r] =
                  [op |-> op, id |-> id, name |-> name, fault |-> fault,
                   out |-> out, committed |-> FALSE]]
    /\ nextId' = seq2
    /\ last' = NoExchange
    /\ delivery' = "none"
    /\ UNCHANGED <<env, table, written, conn, open, pending, reportVars>>

\* ------------------------------------------------------------ the handlers
get_all(r) ==
    /\ pc[r] = "open"
    /\ \E f \in FaultsAt("execute") :
          LET out == IF f = NoFault THEN Return(OrderById(table))
                     ELSE Raise(f.exc)
          IN Executed(r, "get_all", 0, "", f, out, nextId)

get(r) ==
    /\ pc[r] = "open"
    /\ \E id \in ArgIdsOf("get"), f \in FaultsAt("execute") :
          LET result == SelectById(table, id)
              out == IF f # NoFault THEN Raise(f.exc)
                     ELSE IF result = {} THEN NotFoundOutcome
                     ELSE Return(CHOOSE row \in result : TRUE)
          IN Executed(r, "get", id, "", f, out, nextId)

\* a failed INSERT may or may not have drawn its value from the sequence
create(r) ==
    /\ pc[r] = "open"
    /\ nextId <= MaxId
    /\ \E name \in ArgNamesOf("create"), f \in FaultsAt("execute") :
          LET project_id == nextId
              out == IF f = NoFault
                     THEN Return([id |-> project_id, name |-> name])
                     ELSE Raise(f.exc)
          IN \E seq2 \in IF f = NoFault THEN {nextId + 1}
                         ELSE {nextId, nextId + 1} :
                Executed(r, "create", 0, name, f, out, seq2)

update(r) ==
    /\ pc[r] = "open"
    /\ \E id \in ArgIdsOf("update"), name \in ArgNamesOf("update"),
          f \in FaultsAt("execute") :
          LET out == IF f # NoFault THEN Raise(f.exc)
                     ELSE IF RowCount(table, id) = 0
                     THEN NotFoundOutcome
                     ELSE Return([message |-> "Updated successfully"])
          IN Executed(r, "update", id, name, f, out, nextId)

delete(r) ==
    /\ pc[r] = "open"
    /\ \E id \in ArgIdsOf("delete"), f \in FaultsAt("execute") :
          LET out == IF f # NoFault THEN Raise(f.exc)
                     ELSE IF RowCount(table, id) = 0
                     THEN NotFoundOutcome
                     ELSE Return([message |-> "Deleted successfully"])
          IN Executed(r, "delete", id, "", f, out, nextId)

\* the committed rows once the transaction of call c has committed
CommittedRows(rows, c) ==
    IF c.op = "create" THEN InsertRow(rows, c.out.value.id, c.name)
    ELSE IF c.op = "update" THEN UpdateRows(rows, c.id, c.name)
    ELSE IF c.op = "delete" THEN DeleteRows(rows, c.id)
    ELSE rows

\* await conn.commit(): the statement's writes reach the committed rows, or
\* the commit raises and they do not
Commit(r) ==
    /\ pc[r] = "executed"
    /\ \E f \in FaultsAt("commit") :
          LET c == call[r]
              rows2 == CommittedRows(table, c)
          IN /\ table' = IF f = NoFault THEN rows2 ELSE table
             /\ written' =
                  IF f # NoFault THEN written
                  ELSE IF c.op = "create"
                  THEN [written EXCEPT ![c.out.value.id] = c.name]
                  ELSE IF c.op = "update" /\ RowCount(rows2, c.id) > 0
                  THEN [written EXCEPT ![c.id] = c.name]
                  ELSE IF c.op = "delete" THEN [written EXCEPT ![c.id] = ""]
                  ELSE written
             /\ call' = [call EXCEPT ![r] =
                           IF f = NoFault THEN [c EXCEPT !.committed = TRUE]
                           ELSE [c EXCEPT !.fault = f, !.out = Raise(f.exc)]]
    /\ pc' = [pc EXCEPT ![r] = "closing"]
    /\ last' = NoExchange
    /\ delivery' = "none"
    /\ UNCHANGED <<env, nextId, conn, open, pending, reportVars>>

\* (variant) the delivery awaited by the handler instead of scheduled
InlineDelivery_Awaited(d) == IF d.spawned THEN "timeout" ELSE "none"

\* create_task only schedules the delivery: the request's own step makes no
\* delivery attempt
InlineDelivery(d) == "none"

\* the finally block closes the connection, then the call's result or
\* exception leaves the handler and the caller is answered
Finish(r) ==
    LET c == call[r]
        d == Dispatch(env, c.out)
    IN /\ pc[r] = "closing"
       /\ d.spawned => pending < MaxPending
       /\ pc' = [pc EXCEPT ![r] = "idle"]
       /\ call' = [call EXCEPT ![r] = NoCall]
       /\ conn' = [conn EXCEPT ![r] = 0]
       /\ open' = IF ClosesOn(c.out) THEN open \ {conn[r]} ELSE open
       /\ pending' = IF d.spawned THEN pending + 1 ELSE pending
       /\ last' = Exchange(c.op, c.id, c.name,
                           IF c.out.kind = "return" THEN "" ELSE c.op,
                           c.fault, c.out, c.committed, d)
       /\ delivery' = InlineDelivery(d)
       /\ UNCHANGED <<env, table, nextId, written, reportVars>>

\* ------------------------------------------------------ detached delivery
\* how client.post can end: 200, another status, the 5 s timeout, any other error
PostOutcomes == {"200", "non200", "timeout", "error"}

\* (variant) a failed POST is tried again
TasksAfterPost_Retry(p, o) == IF o = "200" THEN p - 1 ELSE p

\* the task ends after its one client.post, whatever came of it
TasksAfterPost(p, o) == p - 1

\* one run of a scheduled send_error_to_endpoint task: a single POST whose
\* outcome is logged and nothing else
send_error_to_endpoint ==
    /\ pending > 0
    /\ \E o \in PostOutcomes :
          /\ delivery' = o
          /\ pending' = TasksAfterPost(pending, o)
    /\ last' = NoExchange
    /\ UNCHANGED <<env, table, nextId, written, pc, call, conn, open, reportVars>>

\* ------------------------------------------------------------------- text
\* A character is a one-character string; a character that cannot be written
\* in a string here is named by its code point, as in "U+000B".

\* the characters str.isspace() holds for, which str.strip() removes
WhiteSpace ==
    {" ", "\t", "\n", "\r", "\f", "U+000B", "U+001C", "U+001D", "U+001E",
     "U+001F", "U+0085", "U+00A0", "U+1680", "U+2000", "U+2001", "U+2002",
     "U+2003", "U+2004", "U+2005", "U+2006", "U+2007", "U+2008", "U+2009",
     "U+200A", "U+2028", "U+2029", "U+202F", "U+205F", "U+3000"}

RECURSIVE LStrip(_)
LStrip(s) == IF s # <<>> /\ Head(s) \in WhiteSpace THEN LStrip(Tail(s)) ELSE s

RECURSIVE RStrip(_)
RStrip(s) ==
    IF s # <<>> /\ s[Len(s)] \in WhiteSpace
    THEN RStrip(SubSeq(s, 1, Len(s) - 1)) ELSE s

\* str.strip()
Strip(s) == RStrip(LStrip(s))

\* the characters re.IGNORECASE takes for a lower-case letter of the pattern:
\* its capital and, for i, also U+0130 and U+0131 (dotted I, dotless i)
UpperCase == <<"A", "B", "C", "D", "E", "F", "I", "P", "W", "U+0130", "U+0131">>
LowerCase == <<"a", "b", "c", "d", "e", "f", "i", "p", "w", "i", "i">>

\* case folding of re.IGNORECASE, on the letters the pattern can meet
Lower(c) ==
    IF \E i \in DOMAIN UpperCase : UpperCase[i] = c
    THEN LowerCase[CHOOSE i \in DOMAIN UpperCase : UpperCase[i] = c]
    ELSE c

\* the pattern r'webapi([a-f0-9]{24})'
PatternPrefix == <<"w", "e", "b", "a", "p", "i">>
HexLen == 24
HexDigits ==
    {"0", "1", "2", "3", "4", "5", "6", "7", "8", "9", "a", "b", "c", "d", "e", "f"}

MatchesAt(s, i) ==
    /\ i + Len(PatternPrefix) + HexLen - 1 <= Len(s)
    /\ \A k \in 1..Len(PatternPrefix) : Lower(s[i + k - 1]) = PatternPrefix[k]
    /\ \A k \in 1..HexLen : Lower(s[i + Len(PatternPrefix) + k - 1]) \in HexDigits

\* re.search(pattern, s, re.IGNORECASE): group(1) of the leftmost match, or None
SearchBoardId(s) ==
    IF \E i \in 1..Len(s) : MatchesAt(s, i)
    THEN LET i == CHOOSE j \in 1..Len(s) :
                      MatchesAt(s, j) /\ \A h \in 1..(j - 1) : ~MatchesAt(s, h)
         IN SubSeq(s, i + Len(PatternPrefix), i + Len(PatternPrefix) + HexLen - 1)
    ELSE None

DecimalDigits == <<"0", "1", "2", "3", "4", "5", "6", "7", "8", "9">>

RECURSIVE Decimal(_)
\* str(n) of a natural number
Decimal(n) ==
    IF n < 10 THEN <<DecimalDigits[n + 1]>>
    ELSE Decimal(n \div 10) \o <<DecimalDigits[(n % 10) + 1]>>

\* ---------------------------------------------------------- board id resolver
\* dict.get(key, default)
Get(d, key, default) == IF key \in DOMAIN d THEN d[key] ELSE default

extract_board_id(req, e) ==
    IF "boardId" \in DOMAIN req.path_params THEN req.path_params["boardId"]
    ELSE IF "boardId" \in DOMAIN req.query_params THEN req.query_params["boardId"]
    ELSE IF "X-Board-Id" \in DOMAIN req.headers THEN req.headers["X-Board-Id"]
    ELSE IF Truthy(e["BOARD_ID"]) /\ Truthy(Strip(e["BOARD_ID"]))
    THEN Strip(e["BOARD_ID"])
    ELSE LET host == Get(req.headers, "host", <<>>)
             endpoint_url == IF e["RUNTIME_ERROR_ENDPOINT_URL"] = None THEN <<>>
                             ELSE e["RUNTIME_ERROR_ENDPOINT_URL"]
         IN IF Truthy(host) /\ SearchBoardId(host) # None
            THEN SearchBoardId(host)
            ELSE IF Truthy(endpoint_url) /\ SearchBoardId(endpoint_url) # None
            THEN SearchBoardId(endpoint_url)
            ELSE None

\* --------------------------------------------------------------- error report
UnknownError == <<"U", "n", "k", "n", "o", "w", "n", " ", "e", "r", "r", "o", "r">>
Startup == <<"S", "T", "A", "R", "T", "U", "P">>
StartupAgent == <<"S", "T", "A", "R", "T", "U", "P", "_", "E", "R", "R", "O", "R">>

TracebackHeader == <<"T", "r", "a", "c", "e", "b", "a", "c", "k", " ", "(", "m", "o", "s", "t", " ", "r", "e", "c", "e", "n", "t", " ", "c", "a", "l", "l", " ", "l", "a", "s", "t", ")", ":", "\n">>

\* one frame as traceback prints it: the location, then the source line and
\* the line of position marks under it where the frame has them
FormatFrame(f) ==
    <<" ", " ", "F", "i", "l", "e", " ", "\"">> \o f.filename \o <<"\"", ",", " ", "l", "i", "n", "e", " ">> \o Decimal(f.lineno) \o <<",", " ", "i", "n", " ">> \o f.name
        \o <<"\n">>
        \o (IF f.line = <<>> THEN <<>>
            ELSE <<" ", " ", " ", " ">> \o f.line \o <<"\n">>
                 \o (IF f.marks = <<>> THEN <<>> ELSE f.marks \o <<"\n">>))

RECURSIVE FormatFrames(_)
FormatFrames(tb) ==
    IF tb = <<>> THEN <<>> ELSE FormatFrame(Head(tb)) \o FormatFrames(Tail(tb))

\* the class as traceback names it: with its module unless that is builtins
\* or __main__
QualifiedName(exc) ==
    IF exc.module \in {Builtins, MainModule} THEN exc.type
    ELSE exc.module \o <<".">> \o exc.type

\* ''.join(traceback.format_exception(type(exc), exc, exc.__traceback__)) of an
\* exception with no cause or context: the header and the frames when there is
\* a traceback, then the class, and ': ' and str(exc) when that is not empty
FormatException(exc) ==
    (IF exc.tb = <<>> THEN <<>> ELSE TracebackHeader \o FormatFrames(exc.tb))
        \o QualifiedName(exc)
        \o (IF exc.message = <<>> THEN <<>> ELSE <<":", " ">> \o exc.message)
        \o <<"\n">>

\* tb_lines[-1] if tb_lines else None, for the innermost frame's file and line
InnermostFile(exc) ==
    IF exc.tb # <<>> THEN exc.tb[Len(exc.tb)].filename ELSE None
InnermostLine(exc) ==
    IF exc.tb # <<>> THEN exc.tb[Len(exc.tb)].lineno ELSE None

\* the payload send_error_to_endpoint builds
ErrorPayload(bid, req, exc, now) ==
    [boardId |-> IF Truthy(bid) THEN bid ELSE <<>>,
     timestamp |-> now,
     file |-> InnermostFile(exc),
     line |-> InnermostLine(exc),
     stackTrace |-> FormatException(exc),
     message |-> IF exc.message # <<>> THEN exc.message ELSE UnknownError,
     exceptionType |-> IF exc.type # <<>> THEN exc.type ELSE <<"E", "x", "c", "e", "p", "t", "i", "o", "n">>,
     requestPath |-> req.path,
     requestMethod |-> IF req.method # <<>> THEN req.method ELSE <<"U", "N", "K", "N", "O", "W", "N">>,
     userAgent |-> IF Truthy(Get(req.headers, "user-agent", None))
                   THEN req.headers["user-agent"] ELSE None]

\* the payload the startup error block builds
StartupPayload(e, exc) ==
    [boardId |-> e["BOARD_ID"],
     timestamp |-> None,
     file |-> InnermostFile(exc),
     line |-> InnermostLine(exc),
     stackTrace |-> FormatException(exc),
     message |-> exc.message,
     exceptionType |-> exc.type,
     requestPath |-> Startup,
     requestMethod |-> Startup,
     userAgent |-> StartupAgent]

NoPayload == [boardId |-> None]
NoAnswer == [status |-> 0, body |-> [error |-> "", message |-> <<>>]]

\* global_exception_handler, for the request under study
global_exception_handler ==
    /\ phase = "raised"
    /\ board_id' = extract_board_id(request, env)
    /\ answer' = ErrorResponse(raised)
    /\ phase' = IF SchedulesDelivery(env) THEN "scheduled" ELSE "responded"
    /\ UNCHANGED <<env, serverVars, request, raised, clock, built, sent>>

\* the scheduled send_error_to_endpoint task builds its payload and posts it
post_error_report ==
    /\ phase = "scheduled"
    /\ sent' = ErrorPayload(board_id, request, raised, clock)
    /\ phase' = "sent"
    /\ UNCHANGED <<env, serverVars, request, raised, clock, board_id, answer,
                   built>>

\* the except block around uvicorn.run, up to its raise: with the endpoint set
\* it builds the payload and starts a daemon thread that is to post it
startup_error ==
    /\ phase = "startup_failed"
    /\ IF Truthy(env["RUNTIME_ERROR_ENDPOINT_URL"])
       THEN /\ built' = StartupPayload(env, raised)
            /\ phase' = "startup_thread"
       ELSE /\ built' = built
            /\ phase' = "startup_raising"
    /\ UNCHANGED <<env, serverVars, request, raised, clock, board_id, answer,
                   sent>>

\* the thread's function: client.post of the payload, any error passed over
send_startup_error ==
    /\ phase = "startup_thread"
    /\ sent' = built
    /\ phase' = "startup_sent"
    /\ UNCHANGED <<env, serverVars, request, raised, clock, board_id, answer,
                   built>>

\* the raise that ends the except block ends the process, and the daemon
\* thread with it, whether or not the thread has posted by then
startup_exit ==
    /\ phase \in {"startup_thread", "startup_sent", "startup_raising"}
    /\ phase' = "exited"
    /\ UNCHANGED <<env, serverVars, request, raised, clock, board_id, answer,
                   built, sent>>

\* ------------------------------------------------------ the specification
ServerEnvs ==
    {[DATABASE_URL |-> d, RUNTIME_ERROR_ENDPOINT_URL |-> u, BOARD_ID |-> None] :
        d \in {None, <<>>, DbUrl}, u \in {None, <<>>, PlainUrl}}

NoRequest ==
    [path_params |-> <<>>, query_params |-> <<>>, headers |-> <<>>,
     path |-> <<>>, method |-> <<>>]

ServerInit ==
    /\ table = {}
    /\ nextId = 1
    /\ written = [i \in Ids |-> ""]
    /\ pc = [r \in Reqs |-> "idle"]
    /\ call = [r \in Reqs |-> NoCall]
    /\ conn = [r \in Reqs |-> 0]
    /\ open = {}
    /\ pending = 0
    /\ last = NoExchange
    /\ delivery = "none"

Init ==
    /\ env \in ServerEnvs
    /\ ServerInit
    /\ phase = "off"
    /\ request = NoRequest
    /\ raised = NoExc
    /\ clock = <<>>
    /\ board_id = None
    /\ answer = NoAnswer
    /\ built = NoPayload
    /\ sent = NoPayload

Next ==
    \/ \E r \in Reqs, op \in Operations : Acquire(r, op)
    \/ \E r \in Reqs : get_all(r)
    \/ \E r \in Reqs : get(r)
    \/ \E r \in Reqs : create(r)
    \/ \E r \in Reqs : update(r)
    \/ \E r \in Reqs : delete(r)
    \/ \E r \in Reqs : Commit(r)
    \/ \E r \in Reqs : Finish(r)
    \/ send_error_to_endpoint

Spec == Init /\ [][Next]_vars

\* ------------------------------------- the error report, one fault at a time
Missing == <<"Missing">>

\* a mapping holding the keys of `full` whose value is not Missing
Dict(full) == [k \in {x \in DOMAIN full : full[x] # Missing} |-> full[k]]

HexLower == [i \in 1..HexLen |-> IF i % 2 = 0 THEN "a" ELSE "1"]
HexUpper == [i \in 1..HexLen |-> IF i % 2 = 0 THEN "F" ELSE "0"]
HexOther == [i \in 1..HexLen |-> IF i % 2 = 0 THEN "c" ELSE "7"]

Hosts ==
    { Missing,
      <<"e", ".", "c", "o">>,
      <<"w", "e", "b", "a", "p", "i">> \o HexLower \o <<".", "u", "p">>,
      <<"W", "e", "b", "A", "p", "i">> \o HexUpper \o <<".", "u", "p">>,
      <<"w", "e", "b", "a", "p", "U+0131">> \o HexOther \o <<".", "u", "p">>,
      <<"w", "e", "b", "a", "p", "i">> \o SubSeq(HexLower, 1, HexLen - 1) \o <<".", "u", "p">> }

EndpointUrls ==
    { None, <<>>, PlainUrl,
      <<"h", "t", "t", "p", ":", "/", "/", "w", "e", "b", "a", "p", "i">> \o HexOther \o <<".", "u", "p", "/", "r">> }

BoardIdEnvs ==
    {None, <<>>, <<" ">>, <<" ", "x", "y", " ">>, <<"\r", "\n">>,
     <<"\n", " ", "x", "y", "\n">>}

ReportRequests ==
    { [path_params |-> Dict([boardId |-> p]),
       query_params |-> Dict([boardId |-> q]),
       headers |-> Dict([x \in {"X-Board-Id", "host", "user-agent"} |->
                           IF x = "X-Board-Id" THEN h
                           ELSE IF x = "host" THEN o ELSE u]),
       path |-> <<"/", "a", "p", "i", "/", "t", "e", "s", "t", "/", "1">>,
       method |-> <<"G", "E", "T">>] :
        p \in {Missing, <<"r", "t">>},
        q \in {Missing, <<>>, <<"q", "s">>},
        h \in {Missing, <<>>, <<"h", "d">>},
        o \in Hosts,
        u \in {Missing, <<"u", "a">>} }

ReportInit ==
    /\ env \in {[DATABASE_URL |-> DbUrl, RUNTIME_ERROR_ENDPOINT_URL |-> u,
                 BOARD_ID |-> b] : u \in EndpointUrls, b \in BoardIdEnvs}
    /\ ServerInit
    /\ \/ phase = "raised" /\ request \in ReportRequests
       \/ phase = "startup_failed" /\ request = NoRequest
    /\ raised \in Faults
    /\ clock = <<"2", "0", "2", "6", "-", "0", "1", "-", "0", "1", "T", "0", "0", ":", "0", "0", ":", "0", "0", "+", "0", "0", ":", "0", "0">>
    /\ board_id = None
    /\ answer = NoAnswer
    /\ built = NoPayload
    /\ sent = NoPayload

ReportNext ==
    \/ global_exception_handler
    \/ post_error_report
    \/ startup_error
    \/ send_startup_error
    \/ startup_exit

SpecReport == ReportInit /\ [][ReportNext]_vars

\* =================================================================== claims
\* a step of a handler that held a connection completed the exchange last'
Handled(x) == x # NoExchange /\ x.origin # "get_db_connection"

\* the steps of invocation r: its cursor block, its commit, and its finally
\* with the answer to the caller
Executes(r) == pc[r] = "open" /\ pc'[r] # "open"
Commits(r) == pc[r] = "executed" /\ pc'[r] # "executed"
Finishes(r) == pc[r] = "closing" /\ pc'[r] = "idle"

\* C1: a request whose processing raises an unhandled fault while
\* RUNTIME_ERROR_ENDPOINT_URL is set gets one 500 response with the generic body
\* carrying the fault's message, and one delivery task is created for it; a run
\* of a task makes one attempt, whatever its outcome, and the task is gone; no
\* task appears or disappears in any other way.
C1_OneResponseOneAttempt ==
    [][ /\ (last'.ended = "raise" /\ Truthy(env["RUNTIME_ERROR_ENDPOINT_URL"])) =>
              /\ last'.status = 500
              /\ last'.body = [error |-> GenericError,
                               message |-> last'.fault.exc.message]
              /\ pending' = pending + 1
        /\ delivery' # "none" =>
              /\ delivery' \in PostOutcomes
              /\ pending > 0
              /\ pending' = pending - 1
        /\ pending' # pending =>
              \/ pending' = pending + 1 /\ last'.ended = "raise"
              \/ pending' = pending - 1 /\ delivery' # "none"
      ]_vars

C1_Witness ==
    /\ last.ended = "raise"
    /\ Truthy(env["RUNTIME_ERROR_ENDPOINT_URL"])
    /\ last.status = 500
    /\ pending = 1

\* C2: when the statement of get, update or delete runs and no row matches the
\* id, the call ends in the 404 'Project not found' without reaching the
\* commit; and a call that ended so is answered 404 with that detail,
\* global_exception_handler is not invoked and no delivery task is created,
\* whatever the table holds and however error reporting is configured.
C2_NotFoundIs404Unreported ==
    [][ \A r \in Reqs :
          /\ ( /\ Executes(r)
               /\ call'[r].op \in {"get", "update", "delete"}
               /\ call'[r].fault = NoFault
               /\ \A row \in table : row.Id # call'[r].id ) =>
                 /\ call'[r].out = HttpError(404, "Project not found")
                 /\ pc'[r] = "closing"
          /\ (pc[r] = "closing" /\ pc'[r] = "closing") => call'[r] = call[r]
          /\ (Finishes(r) /\ call[r].out.kind = "http") =>
                 /\ last'.status = 404
                 /\ last'.body = [detail |-> NotFound]
                 /\ last'.op = call[r].op
                 /\ ~last'.handled
                 /\ ~last'.spawned
                 /\ pending' = pending
                 /\ delivery' = "none"
      ]_vars

C2_Witness ==
    /\ last.op = "delete"
    /\ last.status = 404
    /\ table # {}
    /\ Truthy(env["RUNTIME_ERROR_ENDPOINT_URL"])

\* C3: the response to a faulting request is produced in the step that creates
\* the delivery task, with no delivery attempt made in that step, and it is the
\* same 500 with the generic body whatever the state of earlier deliveries; a
\* delivery attempt, whatever its outcome, produces no response and changes
\* nothing of any request, connection or row.
C3_DeliveryDetached ==
    [][ /\ last'.ended = "raise" =>
              /\ delivery' = "none"
              /\ pending' >= pending
              /\ [status |-> last'.status, body |-> last'.body]
                    = [status |-> 500,
                       body |-> [error |-> GenericError,
                                 message |-> last'.fault.exc.message]]
        /\ delivery' # "none" =>
              /\ last' = NoExchange
              /\ UNCHANGED <<table, nextId, written, pc, call, conn, open>>
      ]_vars

C3_Witness ==
    /\ last.ended = "raise"
    /\ last.status = 500
    /\ last.spawned
    /\ pending > 0
    /\ delivery = "none"

\* C4: with RUNTIME_ERROR_ENDPOINT_URL unset or empty, an unhandled fault is
\* answered 500 with the generic body, no delivery task exists and no delivery
\* attempt is made.
C4_NoEndpointNoDelivery ==
    ~Truthy(env["RUNTIME_ERROR_ENDPOINT_URL"]) =>
        /\ pending = 0
        /\ delivery = "none"
        /\ last.ended = "raise" =>
              /\ last.status = 500
              /\ last.body = [error |-> GenericError,
                              message |-> last.fault.exc.message]
              /\ ~last.spawned

C4_Witness ==
    /\ env["RUNTIME_ERROR_ENDPOINT_URL"] = <<>>
    /\ last.ended = "raise"
    /\ last.status = 500

\* C6: an invocation that is not in flight holds no connection; one in flight
\* holds, from its acquisition to its finally, an open connection that no
\* other invocation holds; the open connections are exactly those of the
\* invocations in flight; a commit was made only by a call whose cursor block
\* did not raise, and every call that returns normally has committed.
C6_ConnectionsOwnedAndClosed ==
    /\ \A r \in Reqs : pc[r] = "idle" => (conn[r] = 0 /\ call[r] = NoCall)
    /\ \A r \in Reqs : pc[r] # "idle" => conn[r] \in open
    /\ open = {conn[r] : r \in {q \in Reqs : pc[q] # "idle"}}
    /\ \A r1, r2 \in Reqs :
          (pc[r1] # "idle" /\ pc[r2] # "idle" /\ r1 # r2) => conn[r1] # conn[r2]
    /\ \A r \in Reqs :
          /\ call[r].committed => (call[r].out.kind = "return" /\ pc[r] = "closing")
          /\ (pc[r] = "closing" /\ call[r].out.kind = "return") => call[r].committed
    /\ last.committed => (last.ended = "return" /\ last.status = 200)
    /\ (Handled(last) /\ last.ended = "return") => last.committed

C6_Witness ==
    /\ Handled(last)
    /\ last.ended = "http"
    /\ \E r \in Reqs : pc[r] = "executed"
    /\ Cardinality(open) = 1

\* C7: the statement of an update changes no committed row; where it matches
\* no row the call ends in the 404 without a commit, and where it matches one
\* the call stands at the acknowledgement.  Its commit either fails and changes
\* nothing or sets the Name of the row with that id to the given name, every
\* other row and every Id staying as they were.  Its answer is 404 in the first
\* case and 200 with the acknowledgement after the commit, and changes no row.
C7_UpdateFrame ==
    [][ \A r \in Reqs :
          /\ (Executes(r) /\ call'[r].op = "update") =>
                LET c == call'[r]
                    hit == {row \in table : row.Id = c.id}
                IN /\ table' = table
                   /\ (c.fault = NoFault /\ hit = {}) =>
                         /\ c.out = HttpError(404, "Project not found")
                         /\ pc'[r] = "closing"
                   /\ (c.fault = NoFault /\ hit # {}) =>
                         /\ c.out = Return([message |-> "Updated successfully"])
                         /\ pc'[r] = "executed"
          /\ (Commits(r) /\ call[r].op = "update") =>
                LET c == call[r]
                    hit == {row \in table : row.Id = c.id}
                IN \/ call'[r].out.kind = "raise" /\ table' = table
                   \/ /\ call'[r] = [c EXCEPT !.committed = TRUE]
                      /\ table' = (table \ hit)
                                    \cup {[Id |-> c.id, Name |-> c.name] : x \in hit}
                      /\ {row.Id : row \in table'} = {row.Id : row \in table}
          /\ (Finishes(r) /\ call[r].op = "update") =>
                /\ table' = table
                /\ call[r].out.kind = "http" => last'.status = 404
                /\ call[r].out.kind = "return" =>
                      /\ call[r].committed
                      /\ last'.status = 200
                      /\ last'.body = [message |-> "Updated successfully"]
      ]_vars

C7_Witness ==
    /\ last.op = "update"
    /\ last.status = 200
    /\ last.id = 1
    /\ [Id |-> 1, Name |-> last.name] \in table
    /\ \E row \in table : row.Id = 2 /\ row.Name # last.name

\* C8: the statement of a get of an id present among the committed rows fetches
\* the record whose Id is that id and whose Name is the name written by the
\* latest committed create or update of that id, and that record is the body of
\* the 200 the caller receives when the call meets no fault.
C8_GetReturnsLatestWrite ==
    [][ \A r \in Reqs :
          /\ ( /\ Executes(r)
               /\ call'[r].op = "get"
               /\ call'[r].fault = NoFault
               /\ \E row \in table : row.Id = call'[r].id ) =>
                 /\ call'[r].out =
                       Return([Id |-> call'[r].id, Name |-> written[call'[r].id]])
                 /\ pc'[r] = "executed"
          /\ (Commits(r) /\ call[r].op = "get") =>
                 \/ call'[r].out = call[r].out
                 \/ call'[r].fault # NoFault
          /\ (Finishes(r) /\ call[r].op = "get" /\ call[r].fault = NoFault
                /\ call[r].out.kind = "return") =>
                 /\ last'.status = 200
                 /\ last'.body = call[r].out.value
      ]_vars

C8_Witness ==
    /\ last.op = "get"
    /\ last.status = 200
    /\ last.body = [Id |-> 2, Name |-> "b"]
    /\ [Id |-> 1, Name |-> "a"] \in table

\* C9 as stated: whenever a data operation cannot obtain a connection, the
\* caller receives 503.
C9_AcquisitionFailureIs503 ==
    last.origin = "get_db_connection" => last.status = 503

\* C9 as amended: a failure to obtain a connection is raised in
\* get_db_connection as an HTTP error that does not reach
\* global_exception_handler, on every route; it is 503 when DATABASE_URL is set
\* and the connect call fails, and 500 when DATABASE_URL is unset or empty; and
\* 503 is answered for no other reason.
C9_ConnectFailureIs503 ==
    /\ last.origin = "get_db_connection" =>
          /\ last.ended = "http"
          /\ ~last.handled
          /\ ~last.spawned
          /\ Truthy(env["DATABASE_URL"]) =>
                (last.status = 503 /\ last.body = [detail |-> ConnectionError])
          /\ ~Truthy(env["DATABASE_URL"]) =>
                (last.status = 500 /\ last.body = [detail |-> NoDatabaseUrl])
    /\ last.status = 503 => last.origin = "get_db_connection"
    /\ (last # NoExchange /\ ~Truthy(env["DATABASE_URL"])) =>
          last.origin = "get_db_connection"

C9_Witness ==
    /\ last.origin = "get_db_connection"
    /\ last.op = "delete"
    /\ last.status = 503

\* ------------------------------------------------- claims on the error report
\* the six sources of the board id in their order, None where a source is absent
BoardIdSources(req, e) ==
    << Get(req.path_params, "boardId", None),
       Get(req.query_params, "boardId", None),
       Get(req.headers, "X-Board-Id", None),
       IF e["BOARD_ID"] = None THEN None ELSE Strip(e["BOARD_ID"]),
       SearchBoardId(Get(req.headers, "host", <<>>)),
       IF e["RUNTIME_ERROR_ENDPOINT_URL"] = None THEN None
       ELSE SearchBoardId(e["RUNTIME_ERROR_ENDPOINT_URL"]) >>

FirstNonEmpty(seq) ==
    IF \E i \in DOMAIN seq : Truthy(seq[i])
    THEN seq[CHOOSE i \in DOMAIN seq :
                 Truthy(seq[i]) /\ \A j \in 1..(i - 1) : ~Truthy(seq[j])]
    ELSE None

\* C5: extract_board_id returns the first non-empty value among route
\* parameter, query parameter, X-Board-Id header, trimmed BOARD_ID, the 24 hex
\* characters after 'webapi' in the Host header and the same in
\* RUNTIME_ERROR_ENDPOINT_URL, and absent when none is non-empty.
C5_FirstNonEmptySourceWins ==
    phase \in {"scheduled", "responded", "sent"} =>
        board_id = FirstNonEmpty(BoardIdSources(request, env))

\* C10: the report the startup path builds for its thread, and posts when the
\* thread gets to post, equals the one send_error_to_endpoint would build for
\* the same fault, boardId coming from BOARD_ID alone and requestPath and
\* requestMethod being 'STARTUP'.
C10_StartupReportSameRules ==
    /\ phase = "startup_sent" => sent = built
    /\ built # NoPayload =>
        LET q == ErrorPayload(env["BOARD_ID"], NoRequest, raised, clock)
        IN /\ built.requestPath = Startup
           /\ built.requestMethod = Startup
           /\ built.boardId = q.boardId
           /\ built.timestamp = q.timestamp
           /\ built.file = q.file
           /\ built.line = q.line
           /\ built.stackTrace = q.stackTrace
           /\ built.message = q.message
           /\ built.exceptionType = q.exceptionType
           /\ built.userAgent = q.userAgent

====
